---- MODULE Spec2Model ----
(***************************************************************************)
(* Model of the crawl engine of src/main.py: the Crawler class (the run    *)
(* driver, the worker pool, the asyncio.Queue frontier, the dedup set, the *)
(* discovery counter) together with the UrlFilterer and the link parser.   *)
(*                                                                         *)
(* Atomicity follows asyncio: a coroutine runs without interruption until  *)
(* it really suspends.  The suspension points of the program are           *)
(* todo.get() on an empty queue, asyncio.sleep(), client.get() and         *)
(* todo.join().  put() on an unbounded queue, parse_links(),               *)
(* on_found_links() and put_todo() never suspend.                          *)
(***************************************************************************)
EXTENDS Integers, Sequences, FiniteSets, TLC

(***************************************************************************)
(* Bounds of the model.                                                    *)
(***************************************************************************)
MaxWorkers == 2
MaxLimit == 3

(***************************************************************************)
(* Program constant.                                                       *)
(***************************************************************************)
MAX_DEPTH == 1

(***************************************************************************)
(* URLs.  A URL string is modelled by the parts urllib.parse.urlparse      *)
(* splits it into; the suffix is what pathlib.Path(path).suffix yields.    *)
(***************************************************************************)
Url(scheme, netloc, path, suffix, query, fragment) ==
    [scheme |-> scheme, netloc |-> netloc, path |-> path, suffix |-> suffix,
     query |-> query, fragment |-> fragment]

\* An href attribute value: an absolute URL, a path reference, or None
\* (the value html.parser hands over for <a href> without a value).
AbsRef(u) == [kind |-> "abs", url |-> u]
PathRef(path, suffix, query, fragment) ==
    [kind |-> "path", path |-> path, suffix |-> suffix, query |-> query,
     fragment |-> fragment]
NoneRef == [kind |-> "none"]

\* url.startswith('https://www.babycharlotte.com')
StartsWithShop(ref) ==
    /\ ref.kind = "abs"
    /\ ref.url.scheme = "https"
    /\ ref.url.netloc = "www.babycharlotte.com"

\* urllib.parse.urljoin(base, url)
urljoin(base, ref) ==
    IF ref.kind = "abs"
    THEN ref.url
    ELSE Url(base.scheme, base.netloc, ref.path, ref.suffix, ref.query,
             ref.fragment)

\* urllib.parse.urldefrag(url)[0]
urldefrag(u) == [u EXCEPT !.fragment = ""]

\* The UrlFilterer of main() and the one of the one-seed scenario.
MainFilterer ==
    [allowed_domains |-> {"babycharlotte.com", "www.babycharlotte.com"},
     allowed_schemes |-> {"http", "https"},
     allowed_filetypes |-> {".html", ".php", ""}]

ScenarioFilterer ==
    [allowed_domains |-> {"site.example"},
     allowed_schemes |-> {"http", "https"},
     allowed_filetypes |-> {".html", ".php", ""}]

Rejected == [kind |-> "rejected"]

\* UrlFilterer.filter_url for an href that has a value: the accepted URL
\* or Rejected (None in the source).
filter_url(f, base, ref) ==
    LET url == IF StartsWithShop(ref)
               THEN ref.url
               ELSE urldefrag(urljoin(base, ref))
    IN  IF url.scheme \notin f.allowed_schemes THEN Rejected
        ELSE IF url.netloc \notin f.allowed_domains THEN Rejected
        ELSE IF url.suffix \notin f.allowed_filetypes THEN Rejected
        ELSE url

(***************************************************************************)
(* The web the crawler runs against: each page's final URL after redirects,*)
(* the <a href> values of its body and the marker matches of its body.     *)
(***************************************************************************)
ShopPage(n) == Url("https", "www.babycharlotte.com", "/collections/all", "", n, "")
B1 == ShopPage("page=1")
B2 == ShopPage("page=2")
B3 == ShopPage("page=3")
B4 == ShopPage("page=4")
SitePage(n) == Url("https", "site.example", "/collections/all", "", n, "")
S1 == SitePage("page=1")
S2 == SitePage("page=2")
External == Url("https", "cdn.shopify.com", "/s/files/EGG_a", ".png", "", "")

ShopPages == {B1, B2, B3, B4}

Response(u) ==
    CASE u = B1 ->
           [url |-> B1,
            hrefs |-> {PathRef("/collections/all", "", "page=2", ""),
                       AbsRef([B3 EXCEPT !.fragment = "top"]),
                       AbsRef(External)},
            eggs |-> <<"EGG_a">>]
      [] u = B2 ->
           [url |-> [B2 EXCEPT !.netloc = "babycharlotte.com"],
            hrefs |-> {PathRef("/collections/all", "", "page=1", "top"),
                       PathRef("/logo", ".png", "", "")},
            eggs |-> << >>]
      [] u = B3 ->
           [url |-> B3,
            hrefs |-> {NoneRef, PathRef("/collections/all", "", "page=2", "")},
            eggs |-> <<"EGG_b", "EGG_c">>]
      [] u = B4 ->
           [url |-> B4,
            hrefs |-> {PathRef("/collections/all", "", "page=2", ""),
                       PathRef("/collections/all", "", "page=5", "")},
            eggs |-> << >>]
      [] u = S1 ->
           [url |-> S1,
            hrefs |-> {PathRef("/collections/all", "", "page=2", ""),
                       AbsRef(External)},
            eggs |-> <<"EGG_a">>]
      [] OTHER ->
           [url |-> u, hrefs |-> {}, eggs |-> << >>]

\* Crawler.find_eggs: the matches of EGG_REGEX in the body, in order.
find_eggs(resp) == resp.eggs

\* UrlParser.handle_starttag calls filter_url on every href; an href without
\* a value is None and url.startswith raises AttributeError.
ParseRaises(resp) == NoneRef \in resp.hrefs

\* Crawler.parse_links: the accepted URLs of the body (when nothing raises).
parse_links(f, resp) ==
    {filter_url(f, resp.url, r) : r \in resp.hrefs \ {NoneRef}} \ {Rejected}

(***************************************************************************)
(* Run configurations: the seed URLs, the worker count, the discovery      *)
(* limit and the filter.                                                   *)
(***************************************************************************)
ScenarioConfig ==
    [start_urls |-> {S1}, num_workers |-> 3, limit |-> 50,
     filterer |-> ScenarioFilterer]

Configs ==
    {[start_urls |-> s, num_workers |-> n, limit |-> l, filterer |-> MainFilterer] :
        s \in SUBSET ShopPages, n \in 1..MaxWorkers, l \in 0..MaxLimit}
    \cup {ScenarioConfig}

VARIABLES
    cfg,        \* the run's configuration (immutable)
    runpc,      \* position of run(): "start", "join", "done"
    joinWoken,  \* the queue's _finished event has been set for the join waiter
    pc,         \* position of each worker task
    item,       \* the (url, depth) item each worker holds
    cancelled,  \* worker.cancel() has been called on the task
    todo,       \* asyncio.Queue: the items waiting
    unfinished, \* asyncio.Queue._unfinished_tasks
    seen, done, total, eggs,
    putLog,     \* history: every item put onto the frontier, in order
    getLog,     \* history: every item retrieved with todo.get()
    doneLog,    \* history: the item of every task_done() call
    failed      \* history: URLs whose crawl raised

vars == <<cfg, runpc, joinWoken, pc, item, cancelled, todo, unfinished,
          seen, done, total, eggs, putLog, getLog, doneLog, failed>>

Workers == 1..cfg.num_workers
NoItem == << >>

\* the same runs constructed with workers=0, and a positive limit
ZeroWorkerConfigs ==
    {[start_urls |-> s, num_workers |-> 0, limit |-> l, filterer |-> MainFilterer] :
        s \in SUBSET ShopPages, l \in 1..MaxLimit}

\* the state after Crawler.__init__ for a configuration of the set C
InitWith(C) ==
    /\ cfg \in C
    /\ runpc = "start"
    /\ joinWoken = FALSE
    /\ pc = [w \in 1..cfg.num_workers |-> "none"]
    /\ item = [w \in 1..cfg.num_workers |-> NoItem]
    /\ cancelled = [w \in 1..cfg.num_workers |-> FALSE]
    /\ todo = << >>
    /\ unfinished = 0
    /\ seen = {}
    /\ done = {}
    /\ total = 0
    /\ eggs = << >>
    /\ putLog = << >>
    /\ getLog = << >>
    /\ doneLog = << >>
    /\ failed = {}

Init == InitWith(Configs)

InitAnyWorkers == InitWith(Configs \cup ZeroWorkerConfigs)


(***************************************************************************)
(* The frontier and the admission procedure, as functions of the engine    *)
(* state q = [seen, todo, unfinished, total, putLog].                      *)
(***************************************************************************)
EngineState ==
    [seen |-> seen, todo |-> todo, unfinished |-> unfinished, total |-> total,
     putLog |-> putLog]

\* put_todo with the cap test off by one ("self.total > self.limit")
put_todo_cap_off_by_one(q, limit, url, depth) ==
    IF depth = MAX_DEPTH THEN q
    ELSE IF q.total > limit THEN q
    ELSE [q EXCEPT !.total = @ + 1,
                   !.todo = Append(@, <<url, depth + 1>>),
                   !.unfinished = @ + 1,
                   !.putLog = Append(@, <<url, depth + 1>>)]

\* put_todo with the depth test written "depth > MAX_DEPTH"
put_todo_depth_gt(q, limit, url, depth) ==
    IF depth > MAX_DEPTH THEN q
    ELSE IF q.total >= limit THEN q
    ELSE [q EXCEPT !.total = @ + 1,
                   !.todo = Append(@, <<url, depth + 1>>),
                   !.unfinished = @ + 1,
                   !.putLog = Append(@, <<url, depth + 1>>)]

\* put_todo without "self.total += 1"
put_todo_no_count(q, limit, url, depth) ==
    IF depth = MAX_DEPTH THEN q
    ELSE IF q.total >= limit THEN q
    ELSE [q EXCEPT !.todo = Append(@, <<url, depth + 1>>),
                   !.unfinished = @ + 1,
                   !.putLog = Append(@, <<url, depth + 1>>)]

\* Crawler.put_todo (with asyncio.Queue.put on the unbounded queue)
put_todo(q, limit, url, depth) ==
    IF depth = MAX_DEPTH THEN q
    ELSE IF q.total >= limit THEN q
    ELSE [q EXCEPT !.total = @ + 1,
                   !.todo = Append(@, <<url, depth + 1>>),
                   !.unfinished = @ + 1,
                   !.putLog = Append(@, <<url, depth + 1>>)]

\* the loop "for url in new: await self.put_todo(url, depth)"
RECURSIVE PutAll(_, _, _, _)
PutAll(q, limit, order, depth) ==
    IF order = << >> THEN q
    ELSE PutAll(put_todo(q, limit, Head(order), depth), limit, Tail(order), depth)

\* the orders in which "for url in new" may iterate over the set
Orders(S) ==
    {o \in [1..Cardinality(S) -> S] : \A i, j \in DOMAIN o : i # j => o[i] # o[j]}

\* on_found_links recording in seen only the URLs it really enqueued
on_found_links_seen_if_put(q, limit, urls, depth, order) ==
    LET r == PutAll(q, limit, order, depth)
    IN  [r EXCEPT !.seen = @ \cup {r.putLog[i][1] :
                                      i \in (Len(q.putLog) + 1)..Len(r.putLog)}]

\* Crawler.on_found_links: dedup against seen, record, admit; order is the
\* order in which the loop iterates over the set new
on_found_links(q, limit, urls, depth, order) ==
    LET new == urls \ q.seen
    IN  PutAll([q EXCEPT !.seen = @ \cup new], limit, order, depth)

\* the engine state after a step, but for the unfinished count, which the
\* step's task_done goes on to change
Becomes(q) ==
    /\ seen' = q.seen
    /\ todo' = q.todo
    /\ total' = q.total
    /\ putLog' = q.putLog

\* self.eggs[url].extend(eggs) on the defaultdict(list)
extend_eggs(e, url, found) ==
    [u \in DOMAIN e \cup {url} |->
        IF u = url
        THEN (IF u \in DOMAIN e THEN e[u] ELSE << >>) \o found
        ELSE e[u]]

(***************************************************************************)
(* run()                                                                   *)
(***************************************************************************)
\* "for worker in workers: worker.cancel()"
CancelAll == cancelled' = [w \in Workers |-> TRUE]

\* run() from its start to the suspension in todo.join(): prime the queue
\* and create the worker tasks.  With nothing admitted join() does not
\* suspend and run() goes on to cancel the workers and return.
RunSeed ==
    /\ runpc = "start"
    /\ \E order \in Orders(cfg.start_urls \ seen) :
          LET q == on_found_links(EngineState, cfg.limit, cfg.start_urls, 0, order)
          IN  /\ Becomes(q)
              /\ unfinished' = q.unfinished
              /\ IF q.unfinished > 0
                 THEN /\ runpc' = "join"
                      /\ UNCHANGED cancelled
                 ELSE /\ runpc' = "done"
                      /\ CancelAll
    /\ pc' = [w \in Workers |-> "get"]
    /\ UNCHANGED <<cfg, joinWoken, item, done, eggs, getLog, doneLog, failed>>

\* todo.join() returns once the _finished event was set; run() cancels the
\* workers and returns.
RunJoinReturn ==
    /\ runpc = "join"
    /\ joinWoken
    /\ runpc' = "done"
    /\ CancelAll
    /\ UNCHANGED <<cfg, joinWoken, pc, item, todo, unfinished, seen, done, total,
                   eggs, putLog, getLog, doneLog, failed>>

(***************************************************************************)
(* The workers                                                             *)
(***************************************************************************)
\* process_one calling task_done() right after get() instead of in finally
WorkerGet_task_done_early(w) ==
    /\ pc[w] = "get"
    /\ ~cancelled[w]
    /\ todo # << >>
    /\ item' = [item EXCEPT ![w] = Head(todo)]
    /\ todo' = Tail(todo)
    /\ getLog' = Append(getLog, Head(todo))
    /\ pc' = [pc EXCEPT ![w] = "sleep"]
    /\ unfinished' = unfinished - 1
    /\ joinWoken' = (joinWoken \/ (unfinished - 1 = 0 /\ runpc = "join"))
    /\ UNCHANGED <<cfg, runpc, cancelled, seen, done,
                   total, eggs, putLog, doneLog, failed>>

\* process_one: "url, depth = await self.todo.get()"
WorkerGet(w) ==
    /\ pc[w] = "get"
    /\ ~cancelled[w]
    /\ todo # << >>
    /\ item' = [item EXCEPT ![w] = Head(todo)]
    /\ todo' = Tail(todo)
    /\ getLog' = Append(getLog, Head(todo))
    /\ pc' = [pc EXCEPT ![w] = "sleep"]
    /\ UNCHANGED <<cfg, runpc, joinWoken, cancelled, unfinished, seen, done,
                   total, eggs, putLog, doneLog, failed>>

\* crawl: "await asyncio.sleep(sleep_dur)" returns and client.get is issued
WorkerSleep(w) ==
    /\ pc[w] = "sleep"
    /\ ~cancelled[w]
    /\ pc' = [pc EXCEPT ![w] = "fetch"]
    /\ UNCHANGED <<cfg, runpc, joinWoken, item, cancelled, todo, unfinished,
                   seen, done, total, eggs, putLog, getLog, doneLog, failed>>

\* process_one's "finally: self.todo.task_done()" applied to the count q:
\* asyncio.Queue.task_done raises ValueError when nothing is unfinished,
\* else decrements and sets _finished at zero.
task_done(w, n, next) ==
    /\ doneLog' = Append(doneLog, item[w])
    /\ item' = [item EXCEPT ![w] = NoItem]
    /\ IF n <= 0
       THEN /\ unfinished' = n
            /\ pc' = [pc EXCEPT ![w] = "crashed"]
            /\ UNCHANGED joinWoken
       ELSE /\ unfinished' = n - 1
            /\ pc' = [pc EXCEPT ![w] = next]
            /\ joinWoken' = (joinWoken \/ (n - 1 = 0 /\ runpc = "join"))

\* process_one with task_done() at the end of the try body, not in finally
CrawlFetchError_no_task_done(w) ==
    /\ pc[w] = "fetch"
    /\ ~cancelled[w]
    /\ failed' = failed \cup {item[w][1]}
    /\ item' = [item EXCEPT ![w] = NoItem]
    /\ pc' = [pc EXCEPT ![w] = "get"]
    /\ UNCHANGED <<cfg, runpc, joinWoken, cancelled, todo, unfinished, seen, done,
                   total, eggs, putLog, getLog, doneLog>>

\* process_one without its except clause: the exception leaves the worker
\* loop, which only catches CancelledError, and the worker task dies
CrawlFetchError_worker_dies(w) ==
    /\ pc[w] = "fetch"
    /\ ~cancelled[w]
    /\ failed' = failed \cup {item[w][1]}
    /\ task_done(w, unfinished, "crashed")
    /\ UNCHANGED <<cfg, runpc, cancelled, todo, seen, done, total, eggs,
                   putLog, getLog>>

\* process_one retrying in its except clause by putting the item back
CrawlFetchError_requeue(w) ==
    /\ pc[w] = "fetch"
    /\ ~cancelled[w]
    /\ failed' = failed \cup {item[w][1]}
    /\ todo' = Append(todo, item[w])
    /\ putLog' = Append(putLog, item[w])
    /\ task_done(w, unfinished + 1, "get")
    /\ UNCHANGED <<cfg, runpc, cancelled, seen, done, total, eggs, getLog>>

\* client.get raises: process_one catches the Exception, prints it, and the
\* worker loops.
CrawlFetchError(w) ==
    /\ pc[w] = "fetch"
    /\ ~cancelled[w]
    /\ failed' = failed \cup {item[w][1]}
    /\ task_done(w, unfinished, "get")
    /\ UNCHANGED <<cfg, runpc, cancelled, todo, seen, done, total, eggs,
                   putLog, getLog>>

\* crawl with "self.done.add(url)" moved up, ahead of parse_links
CrawlParseError_done_first(w) ==
    /\ pc[w] = "fetch"
    /\ ~cancelled[w]
    /\ LET url == item[w][1]
           resp == Response(url)
       IN  /\ ParseRaises(resp)
           /\ eggs' = IF find_eggs(resp) # << >>
                      THEN extend_eggs(eggs, url, find_eggs(resp))
                      ELSE eggs
           /\ done' = done \cup {url}
           /\ failed' = failed \cup {url}
    /\ task_done(w, unfinished, "get")
    /\ UNCHANGED <<cfg, runpc, cancelled, todo, seen, total, putLog, getLog>>

\* client.get returns, the eggs are recorded, and parse_links raises.
CrawlParseError(w) ==
    /\ pc[w] = "fetch"
    /\ ~cancelled[w]
    /\ LET url == item[w][1]
           resp == Response(url)
       IN  /\ ParseRaises(resp)
           /\ eggs' = IF find_eggs(resp) # << >>
                      THEN extend_eggs(eggs, url, find_eggs(resp))
                      ELSE eggs
           /\ failed' = failed \cup {url}
    /\ task_done(w, unfinished, "get")
    /\ UNCHANGED <<cfg, runpc, cancelled, todo, seen, done, total, putLog, getLog>>

\* client.get returns and crawl runs to its end.
CrawlOk(w) ==
    /\ pc[w] = "fetch"
    /\ ~cancelled[w]
    /\ LET url == item[w][1]
           depth == item[w][2]
           resp == Response(url)
           found_links == parse_links(cfg.filterer, resp)
       IN  /\ ~ParseRaises(resp)
           /\ eggs' = IF find_eggs(resp) # << >>
                      THEN extend_eggs(eggs, url, find_eggs(resp))
                      ELSE eggs
           /\ \E order \in Orders(found_links \ seen) :
                 LET q == on_found_links(EngineState, cfg.limit, found_links,
                                         depth, order)
                 IN  /\ Becomes(q)
                     /\ task_done(w, q.unfinished, "get")
           /\ done' = done \cup {url}
    /\ UNCHANGED <<cfg, runpc, cancelled, getLog, failed>>

\* process_one with "await self.todo.get()" inside the try block, so that
\* finally calls task_done() also for a worker cancelled while in get()
WorkerCancelled_get_in_try(w) ==
    /\ cancelled[w]
    /\ pc[w] \in {"get", "sleep", "fetch"}
    /\ task_done(w, unfinished, "stopped")
    /\ UNCHANGED <<cfg, runpc, cancelled, todo, seen, done, total, eggs,
                   putLog, getLog, failed>>

\* worker() swallowing CancelledError ("pass" for "return"): the loop goes
\* on and the cancellation request is used up
WorkerCancelled_swallow(w) ==
    /\ cancelled[w]
    /\ pc[w] \in {"get", "sleep", "fetch"}
    /\ cancelled' = [cancelled EXCEPT ![w] = FALSE]
    /\ IF pc[w] = "get"
       THEN UNCHANGED <<pc, item, unfinished, joinWoken, doneLog>>
       ELSE task_done(w, unfinished, "get")
    /\ UNCHANGED <<cfg, runpc, todo, seen, done, total, eggs,
                   putLog, getLog, failed>>

\* CancelledError is thrown into the task at its suspension point: in
\* todo.get() nothing is held; in crawl the finally clause still runs.
\* worker() catches it and returns.
WorkerCancelled(w) ==
    /\ cancelled[w]
    /\ pc[w] \in {"get", "sleep", "fetch"}
    /\ IF pc[w] = "get"
       THEN /\ pc' = [pc EXCEPT ![w] = "stopped"]
            /\ UNCHANGED <<item, unfinished, joinWoken, doneLog>>
       ELSE task_done(w, unfinished, "stopped")
    /\ UNCHANGED <<cfg, runpc, cancelled, todo, seen, done, total, eggs,
                   putLog, getLog, failed>>

WorkerStep(w) ==
    \/ WorkerGet(w)
    \/ WorkerSleep(w)
    \/ CrawlFetchError(w)
    \/ CrawlParseError(w)
    \/ CrawlOk(w)
    \/ WorkerCancelled(w)

Next ==
    \/ RunSeed
    \/ RunJoinReturn
    \/ \E w \in Workers : WorkerGet(w)
    \/ \E w \in Workers : WorkerSleep(w)
    \/ \E w \in Workers : CrawlFetchError(w)
    \/ \E w \in Workers : CrawlParseError(w)
    \/ \E w \in Workers : CrawlOk(w)
    \/ \E w \in Workers : WorkerCancelled(w)

Spec == Init /\ [][Next]_vars

\* the runs of Spec and those with no worker at all
SpecAnyWorkers == InitAnyWorkers /\ [][Next]_vars

\* Every fetch eventually returns or raises, and the event loop runs every
\* task that is ready.
WorkerIds ==
    1..(IF MaxWorkers > ScenarioConfig.num_workers
        THEN MaxWorkers ELSE ScenarioConfig.num_workers)

FairSpec ==
    /\ Spec
    /\ WF_vars(RunSeed)
    /\ WF_vars(RunJoinReturn)
    /\ \A w \in WorkerIds : WF_vars(w \in Workers /\ WorkerStep(w))


(***************************************************************************)
(* Properties                                                              *)
(***************************************************************************)
\* how often the URL u occurs in a history of items
Count(log, u) == Cardinality({i \in DOMAIN log : log[i][1] = u})

LinksOf(u) == parse_links(cfg.filterer, Response(u))

\* C1: under every interleaving each URL is put onto the frontier at most
\* once, and so is retrieved and processed by crawl at most once.
C1_AtMostOnce ==
    /\ \A i, j \in DOMAIN putLog : putLog[i][1] = putLog[j][1] => i = j
    /\ \A i, j \in DOMAIN getLog : getLog[i][1] = getLog[j][1] => i = j

\* a URL that two processed parent pages both link to was put and
\* retrieved once
C1_Witness ==
    \E a, b \in done :
        /\ a # b
        /\ \E u \in LinksOf(a) \cap LinksOf(b) :
              Count(putLog, u) = 1 /\ Count(getLog, u) = 1

\* C2: the discovery counter never exceeds the limit, the seeding step
\* included, and once total = limit nothing more is put onto the frontier.
C2_CapRespected ==
    /\ [](total <= cfg.limit)
    /\ [][total = cfg.limit => putLog' = putLog]_vars

\* the cap was reached and kept a seed off the frontier for the whole run
C2_Witness ==
    /\ runpc = "done"
    /\ total = cfg.limit
    /\ total > 0
    /\ \E u \in cfg.start_urls : Count(putLog, u) = 0
    /\ \E u \in done : LinksOf(u) # {}

\* C3: no item is put with depth > MAX_DEPTH, and the links found while
\* processing an item of depth MAX_DEPTH go into seen and not onto the
\* frontier.
C3_DepthBound ==
    /\ [](\A i \in DOMAIN putLog : putLog[i][2] <= MAX_DEPTH)
    /\ [][\A w \in Workers :
            (/\ item[w] # NoItem
             /\ item[w][2] = MAX_DEPTH
             /\ item[w][1] \in done' \ done)
            => (putLog' = putLog /\ LinksOf(item[w][1]) \subseteq seen')]_vars

\* a link found on a processed page of depth MAX_DEPTH is in seen and was
\* never put
C3_Witness ==
    \E i \in DOMAIN doneLog :
        /\ doneLog[i][2] = MAX_DEPTH
        /\ doneLog[i][1] \in done
        /\ \E u \in LinksOf(doneLog[i][1]) : u \in seen /\ Count(putLog, u) = 0

\* every item ever put has been retrieved and marked done, none is queued
\* or in flight
AllItemsDone ==
    /\ todo = << >>
    /\ \A w \in Workers : item[w] = NoItem
    /\ Len(getLog) = Len(putLog)
    /\ Len(doneLog) = Len(putLog)
    /\ \A i \in DOMAIN putLog : Count(getLog, putLog[i][1]) = 1
                                /\ Count(doneLog, putLog[i][1]) = 1

\* C4: run() is past todo.join() only if every item put was retrieved and
\* marked done (queue empty, nothing in flight), and join does not stay
\* blocked once that holds.
C4_JoinIffAllDone ==
    /\ [](runpc = "done" => AllItemsDone)
    /\ ((runpc = "join" /\ AllItemsDone) ~> (runpc = "done"))

\* join returned after several items went through the workers
C4_Witness ==
    /\ runpc = "done"
    /\ Len(putLog) >= 2
    /\ joinWoken

\* C5: with at least one worker, fetches that return or raise, and fair
\* scheduling, the run terminates: join returns and run() finishes.
C5_Terminates == <>(runpc = "done")

\* a one-worker run that went through several items is finished
C5_Witness ==
    /\ runpc = "done"
    /\ cfg.num_workers = 1
    /\ Len(doneLog) >= 2


\* C6: a failure on one URL does not keep the other items from being
\* retrieved, processed and marked done; the worker that hit it goes back to
\* todo.get(), and the run terminates normally.
C6_FaultContained ==
    /\ [](failed # {} => <>(runpc = "done" /\ AllItemsDone))
    /\ [][\A w \in Workers :
            (item[w] # NoItem /\ item[w][1] \in failed' \ failed)
            => pc'[w] = "get"]_vars

\* the run is finished, and an item was processed to the end after another
\* one had failed
C6_Witness ==
    /\ runpc = "done"
    /\ \E i, j \in DOMAIN doneLog :
          /\ i < j
          /\ doneLog[i][1] \in failed
          /\ doneLog[j][1] \in done

\* C7: the one-seed scenario (page 1 links to page 2 and to an external
\* host, one marker match, nothing fails) ends with visited = done =
\* {page 1, page 2}, one match recorded for page 1, and the external URL
\* nowhere.
C7_Scenario ==
    (cfg = ScenarioConfig /\ runpc = "done" /\ failed = {})
    => /\ seen = {S1, S2}
       /\ done = {S1, S2}
       /\ S1 \in DOMAIN eggs
       /\ Len(eggs[S1]) = 1
       /\ External \notin seen \cup done \cup DOMAIN eggs
       /\ Count(putLog, External) = 0

\* C8: after join every worker is cancelled and eventually stops, a worker
\* blocked in todo.get() included, and nothing is retrieved or processed
\* after the cancellation.
C8_CancelStops ==
    /\ [](runpc = "done" => \A w \in Workers : cancelled[w])
    /\ [](runpc = "done" => <>(\A w \in Workers : pc[w] = "stopped"))
    /\ [][runpc = "done" =>
            /\ getLog' = getLog
            /\ doneLog' = doneLog
            /\ done' = done
            /\ seen' = seen
            /\ eggs' = eggs]_vars

\* several workers that went through items were cancelled and have stopped
C8_Witness ==
    /\ runpc = "done"
    /\ cfg.num_workers >= 2
    /\ Len(doneLog) >= 2
    /\ \A w \in Workers : pc[w] = "stopped"

\* C9: when processing a URL raises, no worker dies and the run completes;
\* the URL is never added to done although its item is marked done.
C9_FailedNotDone ==
    /\ [](\A u \in failed : u \notin done /\ Count(doneLog, u) = 1)
    /\ [](\A w \in Workers : pc[w] # "crashed")
    /\ [](failed # {} => <>(runpc = "done"))

\* a finished run with a failed URL that is marked done on the frontier and
\* absent from done, next to one that succeeded
C9_Witness ==
    /\ runpc = "done"
    /\ done # {}
    /\ \E u \in failed : u \notin done /\ Count(doneLog, u) = 1

\* C10: when crawl raises, during the fetch or during link extraction, the
\* result index has no entry for that URL.
C10_NoResultOnError == \A u \in failed : u \notin DOMAIN eggs


\* C11: a run with zero workers and at least one seed is fatal: when
\* nothing can happen any more, run() has ended in an error outcome instead
\* of sitting in todo.join().
C11_ZeroWorkersFatal ==
    (cfg.num_workers = 0 /\ cfg.start_urls # {} /\ ~ENABLED Next)
    => runpc = "error"


\* the places of the items a step puts onto the frontier
NewPuts == (Len(putLog) + 1)..Len(putLog')

\* C12: an item created for a seed URL is put with depth 0, and an item
\* created for a discovered link is put with the depth of the item being
\* processed plus 1.
C12_ItemDepths ==
    [][/\ runpc = "start" => \A i \in NewPuts : putLog'[i][2] = 0
       /\ \A w \in Workers :
            (item[w] # NoItem /\ item'[w] = NoItem)
            => \A i \in NewPuts : putLog'[i][2] = item[w][2] + 1]_vars


\* the URLs whose items were retrieved and marked done on the frontier
FinishedUrls == {doneLog[i][1] : i \in DOMAIN doneLog}

\* C14 as stated: at the end of a run done is exactly the set of URLs whose
\* items were retrieved and finished processing, by success or by a
\* tolerated failure.
C14_DoneIsAllFinished == runpc = "done" => done = FinishedUrls

\* C14 amended: at the end of a run done is exactly the set of URLs whose
\* items were retrieved and whose crawl ran to its end without raising; a
\* URL whose processing failed is marked done on the frontier only.
C14_DoneIsAllSucceeded == runpc = "done" => done = FinishedUrls \ failed

\* a finished run in which one URL failed and another went through
C14_Witness ==
    /\ runpc = "done"
    /\ FinishedUrls \cap failed # {}
    /\ FinishedUrls \ failed # {}
    /\ done = FinishedUrls \ failed


\* the workers that hold a retrieved item not yet marked done
InFlight == {w \in Workers : item[w] # NoItem}

\* C15: every retrieved item is marked done exactly once, on success and on
\* error alike, and task_done is never called without a retrieved item (not
\* for a worker cancelled in get either): the calls never outnumber the
\* retrieved items and the queue never raises ValueError.
C15_TaskDoneMatchesGet ==
    /\ Len(doneLog) + Cardinality(InFlight) = Len(getLog)
    /\ \A i \in DOMAIN doneLog :
          /\ Count(doneLog, doneLog[i][1]) = 1
          /\ Count(getLog, doneLog[i][1]) = 1
    /\ unfinished = Len(putLog) - Len(doneLog)
    /\ \A w \in Workers : pc[w] # "crashed"
    /\ runpc = "done" => Len(doneLog) = Len(getLog)

\* every worker was cancelled in get and has stopped, after items that
\* succeeded and items that failed were each marked done once
C15_Witness ==
    /\ \A w \in Workers : pc[w] = "stopped"
    /\ failed # {}
    /\ done # {}
    /\ Len(doneLog) = Len(getLog)
    /\ \A u \in failed \cup done : Count(doneLog, u) = 1

\* the URLs of the items ever put onto the frontier
PutUrls == {putLog[i][1] : i \in DOMAIN putLog}

C17_Accounting ==
    /\ total = Len(putLog)
    /\ Len(putLog) = Len(todo) + Cardinality(InFlight) + Len(doneLog)
    /\ PutUrls \subseteq seen
    /\ done \subseteq PutUrls
    /\ Cardinality(done) <= total
    /\ total <= cfg.limit

\* seen has outgrown the limit while total sits at the limit and pages are
\* done
C17_Witness ==
    /\ Cardinality(seen) > cfg.limit
    /\ total = cfg.limit
    /\ done # {}
    /\ todo # << >>
    /\ InFlight # {}

\* the URLs discovered so far: the seeds once primed, and the links of the
\* pages processed to the end
Discovered ==
    (IF runpc = "start" THEN {} ELSE cfg.start_urls)
    \cup UNION {LinksOf(a) : a \in done}

\* C18: a URL that went into seen without being put (found at depth
\* MAX_DEPTH or with total at the limit) is never put later, also when it is
\* found again; it ends the run in seen and not in done.
C18_SeenUnputStaysUnput ==
    /\ [][\A u \in seen : u \notin PutUrls => Count(putLog', u) = 0]_vars
    /\ [](\A u \in Discovered : u \notin PutUrls => u \in seen /\ u \notin done)

\* a seed the cap kept off the frontier was found again on a processed
\* page, and the run ended with it in seen, never put and not done
C18_Witness ==
    /\ runpc = "done"
    /\ \E u \in cfg.start_urls :
          /\ u \in seen
          /\ u \notin PutUrls
          /\ u \notin done
          /\ \E a \in done : u \in LinksOf(a)

====
